---------------------------- MODULE Spec2Model ----------------------------
(***************************************************************************)
(* The ledger shell of apps/src/bin/anoma-node/shell/mod.rs as a state     *)
(* machine: one action per ABCI message handled by Shell::run, with the    *)
(* transaction driver (run_tx, execute_tx, check_vps, get_verifiers,       *)
(* run_vps_dry, run_vp, merge_vp_results, TxResult::new) as operators.     *)
(*                                                                         *)
(* The write-log, the gas meters, the storage substrate and the two        *)
(* wasm runners are modules of the repository that the shell only calls;   *)
(* they are modelled from their documented contract. The emit_ibc_event    *)
(* host function is the one of crates/ibc/src/actions.rs, the event types  *)
(* and their rendering are those of crates/core/src/event.rs, and the tx   *)
(* actions under the temporary key are those of crates/tx/src/action.rs.   *)
(***************************************************************************)
EXTENDS Integers, Sequences, FiniteSets, TLC

\* ------------------------------------------------------------ bounds
\* Block heights the consensus front-end may announce are 1..MaxHeight.
MaxHeight == 1
\* Stand-in for u64::MAX: every checked addition overflows above it.
U64_MAX == 1000
\* TxResult::new on its own is given Ok(g) for g in 1..MaxGas, and Err.
MaxGas == 4
\* merge_vp_results on its own is given results of at most MaxEntries
\* gas entries each.
MaxEntries == 1
\* The charge of check_vps on its own is given at most MaxVps per-VP costs.
MaxVps == 3
MaxEvents == 2
MaxStr == 3
\* The temporary key holds at most MaxActions actions.
MaxActions == 3

\* ------------------------------------------------- gas meter constants
BASE_TX_FEE_PER_BYTE == 1
COMPILE_FEE_PER_BYTE == 1
PARALLEL_GAS_DIVISOR == 2
TRANSACTION_GAS_LIMIT == 200
BLOCK_GAS_LIMIT == 300

\* ------------------------------------------------------ addresses, keys
Addr == {"ada", "alan", "bob"}
\* The addresses whose validity predicate is present in storage.
VpAddr == {"ada", "alan"}
\* "ada/bal" is a genesis balance key; "ada/alan" names two accounts.
Key == {"ada/bal", "ada/alan"}
KeyOrder == <<"ada/alan", "ada/bal">>

\* Key::find_addresses: every address that appears in the key.
find_addresses(k) ==
    IF k = "ada/bal" THEN {"ada"} ELSE {"ada", "alan"}

\* A write-log entry for one key: 0 no entry, -1 Delete, 1 Write(value);
\* in storage 1 is "the key holds the value" and 0 "the key is absent".
Mod == {0, -1, 1}
NoMods == [k \in Key |-> 0]

\* ---------------------------------------------------------- sequences
RECURSIVE SeqSum(_)
SeqSum(s) == IF s = <<>> THEN 0 ELSE Head(s) + SeqSum(Tail(s))

RECURSIVE InsertDesc(_, _)
InsertDesc(x, s) ==
    IF s = <<>> THEN <<x>>
    ELSE IF x >= Head(s) THEN <<x>> \o s
    ELSE <<Head(s)>> \o InsertDesc(x, Tail(s))

\* vps_result.gas_used.sort_by(|a, b| b.cmp(a))
RECURSIVE SortDesc(_)
SortDesc(s) == IF s = <<>> THEN <<>> ELSE InsertDesc(Head(s), SortDesc(Tail(s)))

SeqRange(s) == {s[i] : i \in 1..Len(s)}

\* Every enumeration of the set S without repetition.
Orders(S) ==
    {s \in [1..Cardinality(S) -> S] : \A i, j \in 1..Cardinality(S) : s[i] = s[j] => i = j}

\* The keys of K in the iteration order of the changed-key set.
KeysIn(K) == SelectSeq(KeyOrder, LAMBDA k : k \in K)

\* -------------------------------------------------------- transactions
\* What the opaque tx bytes make the wasm runners do:
\*   w    the modification the tx code stages for each key (0: none),
\*   B    the verifiers the tx code declares with insert_verifier,
\*   endc how the tx code ends: "ok", "trap" (the runner fails after the
\*        writes), "gas" (the code charges u64::MAX - 1 after the writes),
\*        "undecodable" (the bytes are no Tx at all),
\*   vp   what each account's predicate answers for this tx,
\*   ev   the event the tx code emits with emit_ibc_event ("": none),
\*   acts the actions the tx code pushes with push_action, in order.
Outcome == {"accept", "reject", "error"}
AllAccept == [a \in VpAddr |-> "accept"]
AllReject == [a \in VpAddr |-> "reject"]
Undecodable == [w |-> NoMods, B |-> {}, endc |-> "undecodable", vp |-> AllAccept, ev |-> "", acts |-> <<>>]
\* The transactions of the shell's lifecycle: they write or delete the
\* genesis balance key or stage nothing, declare no verifier, meet predicates
\* that all accept or all reject, and end in each of the four ways; one more
\* declares bob, who has no predicate in storage.
TxShell ==
    {t \in [w : {f \in [Key -> Mod] : f["ada/alan"] = 0}, B : {{}},
            endc : {"ok", "trap", "gas"}, vp : {AllAccept, AllReject}, ev : {""}, acts : {<<>>}] :
        t.endc # "ok" => t.vp = AllAccept}
    \cup {Undecodable,
          [w |-> NoMods, B |-> {"bob"}, endc |-> "ok", vp |-> AllAccept, ev |-> "", acts |-> <<>>]}
\* The transactions of the predicate engine: they stage at most one entry
\* (a write of either key or a delete of the balance key), may declare alan,
\* and meet every mix of outcomes in which alan's predicate does not trap;
\* one more declares bob, who has no predicate in storage.
TxVp ==
    [w : {f \in [Key -> Mod] : f["ada/alan"] # -1 /\ (f["ada/alan"] = 0 \/ f["ada/bal"] = 0)},
     B : {{}, {"alan"}}, endc : {"ok"},
     vp : {f \in [VpAddr -> Outcome] : f["alan"] # "error"}, ev : {""}, acts : {<<>>}]
    \cup {[w |-> NoMods, B |-> {"bob"}, endc |-> "ok", vp |-> AllAccept, ev |-> "", acts |-> <<>>]}
\* The transactions that emit an event: they write the genesis balance key,
\* so that ada's predicate decides them, or stage nothing, and end well or
\* trap after the event.
TxEvents ==
    [w : {f \in [Key -> Mod] : f["ada/alan"] = 0 /\ f["ada/bal"] \in {0, 1}}, B : {{}},
     endc : {"ok", "trap"}, vp : {AllAccept, AllReject}, ev : {"ibc/a", "ibc/b"}, acts : {<<>>}]
\* The transactions that push actions: they write the genesis balance key
\* or stage nothing, push up to two actions and end well or trap after them.
Actions == {"Bond", "Unbond"}
TxActions ==
    [w : {f \in [Key -> Mod] : f["ada/alan"] = 0 /\ f["ada/bal"] \in {0, 1}}, B : {{}},
     endc : {"ok", "trap"}, vp : {AllAccept, AllReject}, ev : {""},
     acts : {<<>>, <<"Bond">>, <<"Unbond">>, <<"Bond", "Unbond">>, <<"Unbond", "Bond">>}]
NoTx == [w |-> NoMods, B |-> {}, endc |-> "none", vp |-> AllAccept, ev |-> "", acts |-> <<>>]

\* tx_bytes.len(), tx.code.len() and the length of an account's VP code.
TxLen(tx) == 2
CodeLen(tx) == 1
VpLen(a) == 1
\* The code blob stored as an account's VP: the accounts created with the
\* user VP share one blob.
VpCode(a) == "vp_user"
\* Gas the tx code consumes through host calls: one unit per staged entry.
TxCodeGas(tx) == Cardinality({k \in Key : tx.w[k] # 0})
\* Gas a predicate consumes (VpGasMeter.vp_gas at the end of its run).
VpGas(a) == IF a = "ada" THEN 4 ELSE 3

\* ----------------------------------------------------------- gas meter
\* BlockGasMeter::default()
DefaultMeter == [transaction_gas |-> 0, block_gas |-> 0]

\* BlockGasMeter::add: checked addition, then the per-tx limit.
gas_add(gm, g) ==
    IF g > U64_MAX - gm.transaction_gas THEN [ok |-> FALSE, gm |-> gm]
    ELSE IF gm.transaction_gas + g > TRANSACTION_GAS_LIMIT THEN [ok |-> FALSE, gm |-> gm]
    ELSE [ok |-> TRUE, gm |-> [gm EXCEPT !.transaction_gas = @ + g]]

add_base_transaction_fee(gm, n) == gas_add(gm, n * BASE_TX_FEE_PER_BYTE)

add_compiling_fee(gm, n) == gas_add(gm, n * COMPILE_FEE_PER_BYTE)

\* ceil(sum(costs) / PARALLEL_GAS_DIVISOR)
add_parallel_fee(gm, costs) ==
    gas_add(gm, (SeqSum(costs) + PARALLEL_GAS_DIVISOR - 1) \div PARALLEL_GAS_DIVISOR)

\* Adds the transaction's gas to the block total and returns it; fails when
\* the block total would overflow or exceed the block gas limit.
finalize_transaction(gm) ==
    IF \/ gm.transaction_gas > U64_MAX - gm.block_gas
       \/ gm.block_gas + gm.transaction_gas > BLOCK_GAS_LIMIT
    THEN [ok |-> FALSE, gas |-> 0, gm |-> gm]
    ELSE [ok |-> TRUE, gas |-> gm.transaction_gas,
          gm |-> [transaction_gas |-> 0, block_gas |-> gm.block_gas + gm.transaction_gas]]

\* BlockGasMeter::reset
gas_reset(gm) == DefaultMeter

\* ----------------------------------------------------------- write-log
\* The keys of the temporary storage: storage_key() of the tx actions.
TX_ACTIONS_KEY == "tx_actions"
storage_key == TX_ACTIONS_KEY
TempKey == {storage_key}
NoTemp == [k \in TempKey |-> [some |-> FALSE, val |-> <<>>]]

\* WriteLog::new(): both layers empty, no Temp entry.
NewWriteLog == [tx |-> NoMods, block |-> NoMods, events |-> <<>>, temp |-> NoTemp]

\* read_temp: the Temp entry staged in tx-scope under key, None without one.
read_temp(wl, key) == wl.temp[key]

\* write_temp: stage a Temp entry in tx-scope.
write_temp(wl, key, val) == [wl EXCEPT !.temp[key] = [some |-> TRUE, val |-> val]]

\* Read::read_actions: the actions under the temporary key, or the default.
read_actions(wl) ==
    IF read_temp(wl, storage_key).some THEN read_temp(wl, storage_key).val ELSE <<>>

\* Write::push_action: read the list, push the action, write the list back.
push_action(wl, action) ==
    write_temp(wl, storage_key,
        Append(IF read_temp(wl, storage_key).some THEN read_temp(wl, storage_key).val
               ELSE <<>>, action))

\* The tx code pushing its actions one after the other.
RECURSIVE push_actions(_, _)
push_actions(wl, acts) ==
    IF acts = <<>> THEN wl ELSE push_actions(push_action(wl, Head(acts)), Tail(acts))

\* The value an entry stands for (0: the key is absent).
ModValue(m) == IF m = -1 THEN 0 ELSE m

\* read: tx-scope, then block-scope, then storage.
wl_read(wl, st, k) ==
    IF wl.tx[k] # 0 THEN ModValue(wl.tx[k])
    ELSE IF wl.block[k] # 0 THEN ModValue(wl.block[k])
    ELSE st.data[k]

\* get_changed_keys: the union of tx-scope and block-scope mutated keys.
get_changed_keys(wl) == {k \in Key : wl.tx[k] # 0 \/ wl.block[k] # 0}

\* commit_tx: merge tx-scope into block-scope; Temp entries are discarded.
commit_tx(wl) ==
    [tx |-> NoMods,
     block |-> [k \in Key |-> IF wl.tx[k] # 0 THEN wl.tx[k] ELSE wl.block[k]],
     events |-> wl.events,
     temp |-> NoTemp]

\* drop_tx: discard tx-scope, Temp entries included.
drop_tx(wl) == [wl EXCEPT !.tx = NoMods, !.temp = NoTemp]

\* emit_event: buffer the event in the block-scope event buffer and return
\* its gas charge.
emit_event(wl, event) == [wl |-> [wl EXCEPT !.events = Append(@, event)], gas |-> 1]

\* commit_block: apply block-scope entries to storage and clear the buffer;
\* the buffered events are flushed with it.
commit_block_data(wl, data) ==
    [k \in Key |-> IF wl.block[k] # 0 THEN ModValue(wl.block[k]) ELSE data[k]]

commit_block_log(wl) == [wl EXCEPT !.block = NoMods, !.events = <<>>]

\* ------------------------------------------------------------- results
\* VpsResult::default()
VpsResult_default ==
    [accepted_vps |-> {}, rejected_vps |-> {}, changed_keys |-> <<>>,
     gas_used |-> <<>>, have_error |-> FALSE]

is_tx_correct(vps) == vps.rejected_vps = {}

\* TxResult::new reporting no gas for a rejected transaction.
TxResult_new_gas_if_valid(gas, vps) ==
    [gas_used |-> IF gas.ok /\ is_tx_correct(vps) THEN gas.gas ELSE 0,
     vps |-> vps,
     valid |-> is_tx_correct(vps)]

\* TxResult::new(gas: Result<u64>, vps): gas is [ok, gas].
TxResult_new(gas, vps) ==
    [gas_used |-> IF gas.ok THEN gas.gas ELSE 0,
     vps |-> vps,
     valid |-> is_tx_correct(vps)]

NoResult == [gas_used |-> 0, vps |-> VpsResult_default, valid |-> FALSE]


\* ------------------------------------------------------------- runners
\* The driver's functions return Result<_>: a step s carries the error (""
\* while there is none) with the write-log and the meter the functions were
\* handed by reference, the declared verifiers B, the verifier map, the
\* predicate invocations, the VpsResult and the calls run_tx has made so
\* far, in the order it made them. The ? operator is "an errored step
\* passes through unchanged".
Start(gm, wl) ==
    [err |-> "", wl |-> wl, gm |-> gm, B |-> {}, verifiers |-> <<>>, calls |-> <<>>,
     vps |-> VpsResult_default, steps |-> <<>>]

\* One more call of run_tx (or of execute_tx, check_vps) is made.
Step(s, name) == [s EXCEPT !.steps = Append(@, name)]

Fail(s, kind) == [s EXCEPT !.err = kind]

\* .map_err(Error::GasError)? on a meter operation's outcome r.
Charged(s, r) == IF r.ok THEN [s EXCEPT !.gm = r.gm] ELSE Fail(s, "gas")

\* TxRunner::run's charges: the host calls' gas, then for "gas" the charge
\* of u64::MAX - 1 the code asks for.
TxRunner_gas(tx, s) ==
    IF s.err = "" /\ tx.endc = "gas" THEN Charged(s, gas_add(s.gm, U64_MAX - 1)) ELSE s

\* IbcStorageContext::emit_ibc_event for TxHostEnvState: the event goes into
\* the write-log, then the gas emit_event returned is charged.
emit_ibc_event(s, event) ==
    Charged([s EXCEPT !.wl = emit_event(s.wl, event).wl],
            gas_add(s.gm, emit_event(s.wl, event).gas))

\* TxRunner::run's emit_ibc_event host call, when the code emits an event.
TxRunner_emit(tx, s) ==
    IF s.err = "" /\ tx.ev # "" THEN emit_ibc_event(s, tx.ev) ELSE s

\* TxRunner::run: the code stages its writes and deletes in tx-scope,
\* declares its verifiers and charges gas through the meter it is handed;
\* pushes its actions under the temporary key,
\* it fails when the code traps or when a gas charge fails, and the deltas
\* staged before the failure stay in tx-scope.
TxRunner_run(tx, s) ==
    LET staged == [s EXCEPT !.wl.tx = [k \in Key |-> IF tx.w[k] # 0 THEN tx.w[k] ELSE @[k]],
                            !.wl.temp = push_actions(s.wl, tx.acts).temp,
                            !.B = tx.B]
        run == TxRunner_gas(tx,
                   TxRunner_emit(tx, Charged(staged, gas_add(s.gm, TxCodeGas(tx)))))
    IN  IF run.err # "" \/ tx.endc = "trap" THEN Fail(run, "runner") ELSE run

\* VpRunner::run: Ok(accepted) or Err; the predicate's meter enforces
\* initial_gas + vp_gas <= per-tx limit.
VpRunner_run(tx, addr, initial_gas) ==
    IF initial_gas + VpGas(addr) > TRANSACTION_GAS_LIMIT THEN "error" ELSE tx.vp[addr]

\* -------------------------------------------------------------- driver
\* The keys get_verifiers hands to address a.
keys_of(changed, a) == KeysIn({k \in changed : a \in find_addresses(k)})

\* get_verifiers without its None arm: a changed key whose address was not
\* declared adds no verifier.
get_verifiers_declared_only(wl, verifiers) ==
    [a \in verifiers |-> keys_of(get_changed_keys(wl), a)]

\* get_verifiers: the declared verifiers with no keys, then every changed
\* key appended to the list of each address found in it.
get_verifiers(wl, verifiers) ==
    [a \in verifiers \cup UNION {find_addresses(k) : k \in get_changed_keys(wl)} |->
        keys_of(get_changed_keys(wl), a)]

\* run_vp whose Err arm only raises have_error.
run_vp_outcome_err_unrecorded(result, addr, accept) ==
    CASE accept = "accept" -> [result EXCEPT !.accepted_vps = @ \cup {addr}]
      [] accept = "reject" -> [result EXCEPT !.rejected_vps = @ \cup {addr}]
      [] OTHER -> [result EXCEPT !.have_error = TRUE]

\* The match of run_vp on the runner's answer.
run_vp_outcome(result, addr, accept) ==
    CASE accept = "accept" -> [result EXCEPT !.accepted_vps = @ \cup {addr}]
      [] accept = "reject" -> [result EXCEPT !.rejected_vps = @ \cup {addr}]
      [] OTHER -> [result EXCEPT !.rejected_vps = @ \cup {addr}, !.have_error = TRUE]

\* run_vp: one predicate's gas, keys and outcome folded into the result.
run_vp(result, initial_gas, tx, addr, keys) ==
    run_vp_outcome(
        [result EXCEPT !.gas_used = Append(@, VpGas(addr)), !.changed_keys = @ \o keys],
        addr, VpRunner_run(tx, addr, initial_gas))

\* merge_vp_results that forgets to append b's gas entries.
merge_vp_results_left_gas(a, b) ==
    [accepted_vps |-> a.accepted_vps \cup b.accepted_vps,
     rejected_vps |-> a.rejected_vps \cup b.rejected_vps,
     changed_keys |-> a.changed_keys \o b.changed_keys,
     gas_used |-> a.gas_used,
     have_error |-> a.have_error \/ b.have_error]

\* merge_vp_results that keeps the error flag only when both sides have it.
merge_vp_results_both_error(a, b) ==
    [accepted_vps |-> a.accepted_vps \cup b.accepted_vps,
     rejected_vps |-> a.rejected_vps \cup b.rejected_vps,
     changed_keys |-> a.changed_keys \o b.changed_keys,
     gas_used |-> a.gas_used \o b.gas_used,
     have_error |-> a.have_error /\ b.have_error]

\* merge_vp_results
merge_vp_results(a, b) ==
    [accepted_vps |-> a.accepted_vps \cup b.accepted_vps,
     rejected_vps |-> a.rejected_vps \cup b.rejected_vps,
     changed_keys |-> a.changed_keys \o b.changed_keys,
     gas_used |-> a.gas_used \o b.gas_used,
     have_error |-> a.have_error \/ b.have_error]

\* run_vps_dry that stops at the first predicate that rejects.
RECURSIVE run_vps_short_circuit(_, _, _, _)
run_vps_short_circuit(sched, verifiers, tx, initial_gas) ==
    IF sched = <<>> THEN VpsResult_default
    ELSE IF run_vp(VpsResult_default, initial_gas, tx, Head(sched),
                   verifiers[Head(sched)]).rejected_vps # {}
    THEN run_vp(VpsResult_default, initial_gas, tx, Head(sched), verifiers[Head(sched)])
    ELSE merge_vp_results(
            run_vp(VpsResult_default, initial_gas, tx, Head(sched), verifiers[Head(sched)]),
            run_vps_short_circuit(Tail(sched), verifiers, tx, initial_gas))

\* run_vps_dry: every predicate runs, in the order sched the pool happens
\* to take them; each is folded from the default result and the partial
\* results are merged.
RECURSIVE run_vps_dry(_, _, _, _)
run_vps_dry(sched, verifiers, tx, initial_gas) ==
    IF sched = <<>> THEN VpsResult_default
    ELSE merge_vp_results(
            run_vp(VpsResult_default, initial_gas, tx, Head(sched), verifiers[Head(sched)]),
            run_vps_dry(Tail(sched), verifiers, tx, initial_gas))

\* Predicates that meter on the block meter itself: each one starts from
\* what the ones before it left.
RECURSIVE vp_calls_accruing(_, _, _, _)
vp_calls_accruing(sched, verifiers, wl, initial_gas) ==
    IF sched = <<>> THEN <<>>
    ELSE <<[addr |-> Head(sched), keys |-> verifiers[Head(sched)],
            addresses |-> DOMAIN verifiers, write_log |-> wl,
            initial_gas |-> initial_gas]>>
         \o vp_calls_accruing(Tail(sched), verifiers, wl, initial_gas + VpGas(Head(sched)))

\* The record of one predicate invocation: what VpRunner::run was handed,
\* initial_gas being what run_vp starts the predicate's VpGasMeter from.
RECURSIVE vp_calls(_, _, _, _)
vp_calls(sched, verifiers, wl, initial_gas) ==
    IF sched = <<>> THEN <<>>
    ELSE <<[addr |-> Head(sched), keys |-> verifiers[Head(sched)],
            addresses |-> DOMAIN verifiers, write_log |-> wl,
            initial_gas |-> initial_gas]>>
         \o vp_calls(Tail(sched), verifiers, wl, initial_gas)

\* The loop of check_vps charging a blob shared by several verifiers once.
RECURSIVE load_vps_distinct(_, _)
load_vps_distinct(sched, s) ==
    IF sched = <<>> \/ s.err # "" THEN s
    ELSE IF Head(sched) \notin VpAddr THEN Fail(s, "storage")
    ELSE load_vps_distinct(Tail(sched),
            IF \E i \in 2..Len(sched) : VpCode(sched[i]) = VpCode(Head(sched)) THEN s
            ELSE Charged(Step(s, "vp_compiling_fee"),
                         add_compiling_fee(s.gm, VpLen(Head(sched)))))

\* The loop of check_vps that loads each verifier's VP and charges its
\* compiling fee: "storage" when a VP is absent, "gas" when a charge fails.
RECURSIVE load_vps(_, _)
load_vps(sched, s) ==
    IF sched = <<>> \/ s.err # "" THEN s
    ELSE IF Head(sched) \notin VpAddr THEN Fail(s, "storage")
    ELSE load_vps(Tail(sched),
            Charged(Step(s, "vp_compiling_fee"), add_compiling_fee(s.gm, VpLen(Head(sched)))))

\* The sort left out: the list stays as it was aggregated.
sort_gas_none(vps) == vps

\* vps_result.gas_used.sort_by(|a, b| b.cmp(a)): decreasing order.
sort_gas(vps) == [vps EXCEPT !.gas_used = SortDesc(@)]

\* check_vps without the sort: the gas list stays in completion order.
dispatch_vps_unsorted(tx, s, sched) ==
    IF s.err # "" THEN s
    ELSE [s EXCEPT !.steps = Append(@, "run_vps"),
                   !.calls = vp_calls(sched, s.verifiers, s.wl, s.gm.transaction_gas),
                   !.vps = run_vps_dry(sched, s.verifiers, tx, s.gm.transaction_gas)]

\* check_vps whose engine hands the write-log on mutably: the predicates
\* leave its tx-scope emptied.
dispatch_vps_mutating(tx, s, sched) ==
    IF s.err # "" THEN s
    ELSE [s EXCEPT !.steps = Append(@, "run_vps"),
                   !.calls = vp_calls(sched, s.verifiers, s.wl, s.gm.transaction_gas),
                   !.vps = sort_gas(run_vps_dry(sched, s.verifiers, tx, s.gm.transaction_gas)),
                   !.wl = drop_tx(s.wl)]

\* check_vps, the dispatch: initial_gas is snapshotted, the predicates run
\* on shared references to the storage and the write-log, the gas list is
\* sorted in decreasing order.
dispatch_vps(tx, s, sched) ==
    IF s.err # "" THEN s
    ELSE [s EXCEPT !.steps = Append(@, "run_vps"),
                   !.calls = vp_calls(sched, s.verifiers, s.wl, s.gm.transaction_gas),
                   !.vps = sort_gas(run_vps_dry(sched, s.verifiers, tx, s.gm.transaction_gas))]

\* check_vps, the charge: the largest cost in full, the rest discounted.
charge_max(s) ==
    IF s.err # "" \/ s.vps.gas_used = <<>> THEN s
    ELSE Charged(Step(s, "add"), gas_add(s.gm, Head(s.vps.gas_used)))

charge_rest(s) ==
    IF s.err # "" \/ s.vps.gas_used = <<>> THEN s
    ELSE Charged(Step(s, "add_parallel_fee"), add_parallel_fee(s.gm, Tail(s.vps.gas_used)))

\* check_vps, from split_first on: the two charges.
charge_vps(s) == charge_rest(charge_max(s))

\* check_vps
check_vps(tx, s, sched) ==
    IF s.err # "" THEN s
    ELSE charge_vps(dispatch_vps(tx,
            load_vps(sched, [Step(s, "get_verifiers") EXCEPT
                                !.verifiers = get_verifiers(s.wl, s.B)]), sched))

\* execute_tx after the compiling fee: the runner, unless the fee failed.
execute_tx_run(tx, s) == IF s.err # "" THEN s ELSE TxRunner_run(tx, Step(s, "TxRunner"))

\* execute_tx: the tx code's compiling fee, then the runner.
execute_tx(tx, s) ==
    IF s.err # "" THEN s
    ELSE execute_tx_run(tx,
            Charged(Step(s, "add_compiling_fee"), add_compiling_fee(s.gm, CodeLen(tx))))

\* run_tx up to the point where it has the VpsResult: the base fee, the
\* decoding, the tx code, the predicates.
\* run_tx that takes any bytes for a Tx.
decode_tx_lenient(tx, s) == s

\* Tx::decode(tx_bytes).map_err(Error::TxDecodingError)?
decode_tx(tx, s) ==
    IF s.err # "" THEN s
    ELSE IF tx.endc = "undecodable" THEN Fail(Step(s, "decode"), "decode")
    ELSE Step(s, "decode")

run_tx_steps(tx, gm, wl, sched) ==
    check_vps(tx,
        execute_tx(tx,
            decode_tx(tx, Charged(Step(Start(gm, wl), "add_base_transaction_fee"),
                                  add_base_transaction_fee(gm, TxLen(tx))))),
        sched)

\* run_tx that finalizes the meter's transaction even when a step failed.
finish_tx_always_finalize(s, gas) ==
    [err |-> s.err,
     result |-> IF s.err # "" THEN NoResult
                ELSE TxResult_new([ok |-> gas.ok, gas |-> gas.gas], s.vps),
     wl |-> s.wl,
     gm |-> gas.gm,
     verifiers |-> s.verifiers,
     calls |-> s.calls,
     steps |-> Append(s.steps, "finalize_transaction")]

\* run_tx's last two lines: finalize_transaction and TxResult::new.
finish_tx(s, gas) ==
    [err |-> s.err,
     result |-> IF s.err # "" THEN NoResult
                ELSE TxResult_new([ok |-> gas.ok, gas |-> gas.gas], s.vps),
     wl |-> s.wl,
     gm |-> IF s.err # "" THEN s.gm ELSE gas.gm,
     verifiers |-> s.verifiers,
     calls |-> s.calls,
     steps |-> IF s.err # "" THEN s.steps ELSE Append(s.steps, "finalize_transaction")]

\* run_tx: Err(err) or Ok(result); wl and gm are the write-log and the
\* meter it was handed by reference, as it leaves them.
run_tx_finish(s) == finish_tx(s, finalize_transaction(s.gm))

run_tx(tx, gm, wl, sched) == run_tx_finish(run_tx_steps(tx, gm, wl, sched))

\* The verifier set run_tx will compute for tx on write-log wl: the pool
\* schedules exactly these predicates.
scheduled(tx, wl) ==
    IF tx.endc = "undecodable" THEN {}
    ELSE DOMAIN get_verifiers(TxRunner_run(tx, Start(DefaultMeter, wl)).wl, tx.B)

\* --------------------------------------------------------------- state
VARIABLES
    storage,    \* Shell.storage: data, the open block's height, the last committed state
    write_log,  \* Shell.write_log: the tx-scope and block-scope layers
    gas_meter,  \* Shell.gas_meter: the block gas meter
    reply,      \* the message Shell::run handled last (tx: the bytes of a
                \* MempoolValidate) and what it sent back
    trace,      \* what the last run_tx was given, what it produced and the
                \* write-log as it left it
    call,       \* a function applied on its own: its argument and its value
    run,        \* Shell::run: "loop" while it serves messages, else the error it returned
    abci        \* what the channels did last: "open", "recv_err" or "send_err"

vars == <<storage, write_log, gas_meter, reply, trace, call, run, abci>>

\* Storage::merkle_root: a commitment to the committed data.
merkle_root(data) == data

NoInfo == [some |-> FALSE, root |-> [k \in Key |-> 0], height |-> 0]

\* Shell::new: the genesis balance is written straight to storage.
GenesisData == [k \in Key |-> IF k = "ada/bal" THEN 1 ELSE 0]

NoTrace ==
    [tx |-> NoTx, err |-> "", result |-> NoResult, verifiers |-> <<>>, calls |-> <<>>,
     wl |-> NewWriteLog, steps |-> <<>>]

NoReply ==
    [msg |-> "", tx |-> NoTx, sent |-> FALSE, ok |-> TRUE, gas_used |-> 0, info |-> NoInfo]

NoCall == [fn |-> "", done |-> FALSE]

\* Shell::new
ShellNew ==
    /\ storage = [data |-> GenesisData, height |-> 0, last |-> NoInfo, chain_id |-> ""]
    /\ write_log = NewWriteLog
    /\ gas_meter = DefaultMeter
    /\ reply = NoReply
    /\ trace = NoTrace
    /\ run = "loop"
    /\ abci = "open"

Init == ShellNew /\ call = NoCall

TraceOf(tx, r) ==
    [tx |-> tx, err |-> r.err, result |-> r.result, verifiers |-> r.verifiers, calls |-> r.calls,
     wl |-> r.wl, steps |-> r.steps]

\* Shell::last_state
last_state == storage.last

\* self.abci.recv() at the head of the loop of Shell::run fails (every sender
\* is gone): run() returns AbciChannelRecvError and no message is handled.
recv_error ==
    /\ run = "loop"
    /\ abci' = "recv_err"
    /\ run' = "AbciChannelRecvError"
    /\ reply' = NoReply
    /\ trace' = NoTrace
    /\ UNCHANGED <<storage, write_log, gas_meter, call>>

\* reply.send(..) whose failure is ignored: the loop goes on either way.
reply_send_unchecked ==
    \E ok \in BOOLEAN :
        /\ abci' = IF ok THEN "open" ELSE "send_err"
        /\ run' = "loop"

\* reply.send(..).map_err(AbciChannelSendError)? at the end of an arm of
\* Shell::run: the reply is delivered and the loop goes on, or the receiver
\* of the reply is gone and run() returns AbciChannelSendError.
reply_send ==
    \E ok \in BOOLEAN :
        /\ abci' = IF ok THEN "open" ELSE "send_err"
        /\ run' = IF ok THEN "loop" ELSE "AbciChannelSendError"

\* AbciMsg::GetInfo
GetInfo ==
    /\ run = "loop"
    /\ reply' = [NoReply EXCEPT !.msg = "GetInfo", !.sent = TRUE, !.info = last_state]
    /\ trace' = NoTrace
    /\ UNCHANGED <<storage, write_log, gas_meter, call>>
    /\ reply_send

\* AbciMsg::InitChain -> Shell::init_chain: when Storage::set_chain_id fails,
\* the `?` makes run() return the StorageError and no reply is sent.
init_chain(chain_id, fails) ==
    /\ run = "loop"
    /\ trace' = NoTrace
    /\ UNCHANGED <<write_log, gas_meter, call>>
    /\ IF fails
       THEN /\ storage' = storage
            /\ reply' = [NoReply EXCEPT !.msg = "InitChain"]
            /\ run' = "StorageError"
            /\ abci' = abci
       ELSE /\ storage' = [storage EXCEPT !.chain_id = chain_id]
            /\ reply' = [NoReply EXCEPT !.msg = "InitChain", !.sent = TRUE]
            /\ reply_send

\* AbciMsg::MempoolValidate -> Shell::mempool_validate: decode only.
mempool_validate(tx) ==
    /\ run = "loop"
    /\ reply' = [NoReply EXCEPT !.msg = "MempoolValidate", !.tx = tx, !.sent = TRUE,
                                !.ok = (tx.endc # "undecodable")]
    /\ trace' = NoTrace
    /\ UNCHANGED <<storage, write_log, gas_meter, call>>
    /\ reply_send

\* AbciMsg::BeginBlock -> Shell::begin_block
begin_block(height) ==
    /\ run = "loop"
    /\ gas_meter' = gas_reset(gas_meter)
    /\ storage' = [storage EXCEPT !.height = height]
    /\ reply' = [NoReply EXCEPT !.msg = "BeginBlock", !.sent = TRUE]
    /\ trace' = NoTrace
    /\ UNCHANGED <<write_log, call>>
    /\ reply_send

\* apply_tx that drops the tx-scope whatever the predicates said.
apply_tx_always_drop(r) ==
    IF r.err # "" THEN r.wl ELSE drop_tx(r.wl)

\* The write-log Shell::apply_tx leaves behind: run_tx works on the shell's
\* own write-log; an Err returns early, an Ok commits or drops the tx-scope.
apply_tx_write_log(r) ==
    IF r.err # "" THEN r.wl
    ELSE IF r.result.vps.rejected_vps = {} THEN commit_tx(r.wl)
    ELSE drop_tx(r.wl)

\* apply_tx that charges the base fee of one byte before run_tx does.
apply_tx_meter_precharged(gm) ==
    [gm EXCEPT !.transaction_gas = @ + BASE_TX_FEE_PER_BYTE]

\* The meter Shell::apply_tx hands to run_tx: a clone of the shell's.
apply_tx_meter(gm) == gm

\* The ApplyTx arm written with `?` on apply_tx's result: an Err of run_tx
\* leaves run() instead of being rendered into the reply.
apply_tx_propagating(tx, sched) ==
    /\ run = "loop"
    /\ \E r \in {run_tx(tx, apply_tx_meter(gas_meter), write_log, sched)} :
        /\ write_log' = apply_tx_write_log(r)
        /\ reply' = [NoReply EXCEPT !.msg = "ApplyTx", !.sent = (r.err = ""),
                                    !.ok = (r.err = ""), !.gas_used = r.result.gas_used]
        /\ trace' = TraceOf(tx, r)
        /\ UNCHANGED <<storage, gas_meter, call>>
        /\ IF r.err = "" THEN reply_send ELSE run' = "TxError" /\ abci' = abci

\* AbciMsg::ApplyTx -> Shell::apply_tx
apply_tx(tx, sched) ==
    /\ run = "loop"
    /\ \E r \in {run_tx(tx, apply_tx_meter(gas_meter), write_log, sched)} :
        /\ write_log' = apply_tx_write_log(r)
        /\ reply' = [NoReply EXCEPT !.msg = "ApplyTx", !.sent = TRUE, !.ok = (r.err = ""),
                                    !.gas_used = r.result.gas_used]
        /\ trace' = TraceOf(tx, r)
        /\ UNCHANGED <<storage, gas_meter, call>>
        /\ reply_send

\* AbciMsg::EndBlock -> Shell::end_block
end_block ==
    /\ run = "loop"
    /\ reply' = [NoReply EXCEPT !.msg = "EndBlock", !.sent = TRUE]
    /\ trace' = NoTrace
    /\ UNCHANGED <<storage, write_log, gas_meter, call>>
    /\ reply_send

\* commit() that treats an error of Storage::commit as fatal: no root is
\* replied and run() returns the StorageError.
commit_fatal(fails) ==
    LET data == commit_block_data(write_log, storage.data)
        info == [some |-> TRUE, root |-> merkle_root(data), height |-> storage.height]
    IN  /\ run = "loop"
        /\ write_log' = commit_block_log(write_log)
        /\ storage' = [storage EXCEPT !.data = data,
                                      !.last = IF fails THEN @ ELSE info]
        /\ trace' = NoTrace
        /\ UNCHANGED <<gas_meter, call>>
        /\ IF fails
           THEN /\ reply' = [NoReply EXCEPT !.msg = "CommitBlock"]
                /\ run' = "StorageError"
                /\ abci' = abci
           ELSE /\ reply' = [NoReply EXCEPT !.msg = "CommitBlock", !.sent = TRUE,
                                            !.info = [info EXCEPT !.height = 0]]
                /\ reply_send

\* AbciMsg::CommitBlock -> Shell::commit: the write-log is flushed into
\* storage; a failure of the storage commit is logged and swallowed.
commit(fails) ==
    LET data == commit_block_data(write_log, storage.data)
        info == [some |-> TRUE, root |-> merkle_root(data), height |-> storage.height]
    IN  /\ run = "loop"
        /\ write_log' = commit_block_log(write_log)
        /\ storage' = [storage EXCEPT !.data = data,
                                      !.last = IF fails THEN @ ELSE info]
        /\ reply' = [NoReply EXCEPT !.msg = "CommitBlock", !.sent = TRUE,
                                    !.info = [info EXCEPT !.height = 0]]
        /\ trace' = NoTrace
        /\ UNCHANGED <<gas_meter, call>>
        /\ reply_send

\* dry_run_tx without the clone: run_tx works on the shell's own write-log.
dry_run_tx_shared_log(r) == r.wl

\* The shell's write-log after Shell::dry_run_tx: run_tx r worked on a
\* clone, which is thrown away.
dry_run_tx_write_log(r) == write_log

\* AbciMsg::AbciQuery with path "dry_run_tx" -> Shell::dry_run_tx: run_tx on
\* a fresh meter and a clone of the write-log.
dry_run_tx(tx, sched) ==
    /\ run = "loop"
    /\ \E r \in {run_tx(tx, DefaultMeter, write_log, sched)} :
        /\ reply' = [NoReply EXCEPT !.msg = "AbciQuery", !.sent = TRUE, !.ok = (r.err = ""),
                                    !.gas_used = r.result.gas_used]
        /\ trace' = TraceOf(tx, r)
        /\ write_log' = dry_run_tx_write_log(r)
        /\ UNCHANGED <<storage, gas_meter, call>>
        /\ reply_send

\* AbciMsg::AbciQuery with any other path: nothing runs and nothing is sent.
other_query ==
    /\ run = "loop"
    /\ reply' = [NoReply EXCEPT !.msg = "AbciQuery"]
    /\ trace' = NoTrace
    /\ UNCHANGED <<storage, write_log, gas_meter, call, run, abci>>

ApplyTx(T) ==
    \E tx \in T :
        /\ tx.ev # "" => Len(write_log.events) < MaxEvents
        /\ Len(read_actions(write_log)) + Len(tx.acts) <= MaxActions
        /\ \E sched \in Orders(scheduled(tx, write_log)) : apply_tx(tx, sched)

DryRun(T) == \E tx \in T : \E sched \in Orders(scheduled(tx, write_log)) : dry_run_tx(tx, sched)

MempoolValidate == \E tx \in {[Undecodable EXCEPT !.endc = "ok"], Undecodable} : mempool_validate(tx)

BeginBlock == \E height \in 1..MaxHeight : begin_block(height)

CommitBlock == \E fails \in BOOLEAN : commit(fails)

InitChain == \E fails \in BOOLEAN : init_chain("anoma", fails)

\* Shell::run: one message of the consensus front-end at a time.
Next ==
    \/ recv_error
    \/ GetInfo
    \/ InitChain
    \/ MempoolValidate
    \/ BeginBlock
    \/ ApplyTx(TxShell)
    \/ end_block
    \/ CommitBlock
    \/ DryRun(TxShell)
    \/ other_query

Spec == Init /\ [][Next]_vars

\* The predicate engine inside one block: transactions that differ in what
\* they stage, whom they declare and what the predicates answer.
NextVp == ApplyTx(TxVp) \/ DryRun(TxVp)

SpecVp == Init /\ [][NextVp]_vars

\* Whole blocks of such transactions: BeginBlock, ApplyTx*, EndBlock,
\* CommitBlock, the predicates of each transaction scheduled in any order.
\* The transactions write the two-account key, delete the balance key or
\* stage nothing, and declare nobody.
TxBlocks == {t \in TxVp : t.B = {} /\ t.w["ada/bal"] # 1}

NextBlocks == BeginBlock \/ ApplyTx(TxBlocks) \/ end_block \/ CommitBlock

SpecBlocks == Init /\ [][NextBlocks]_vars

\* Blocks of transactions that emit events.
NextEvents == BeginBlock \/ ApplyTx(TxEvents) \/ CommitBlock

SpecEvents == Init /\ [][NextEvents]_vars

\* Blocks of transactions that push actions.
NextActions == BeginBlock \/ ApplyTx(TxActions) \/ CommitBlock

SpecActions == Init /\ [][NextActions]_vars


\* TxResult::new on its own: the gas argument is what finalize_transaction
\* can return (Err, or Ok of a positive total), the VpsResult what the
\* engine can produce (disjoint sets, an error only with a rejection).
GasResults == {[ok |-> FALSE, gas |-> 0]} \cup {[ok |-> TRUE, gas |-> g] : g \in 1..MaxGas}

VpsResults ==
    {v \in [accepted_vps : SUBSET VpAddr, rejected_vps : SUBSET VpAddr, changed_keys : {<<>>},
            gas_used : {<<>>}, have_error : BOOLEAN] :
        /\ v.accepted_vps \cap v.rejected_vps = {}
        /\ v.have_error => v.rejected_vps # {}}

InitTxResult ==
    /\ ShellNew
    /\ call \in [fn : {"TxResult::new"}, gas : GasResults, vps : VpsResults,
                 done : {FALSE}, ret : {NoResult}]

TxResultNew ==
    /\ ~call.done
    /\ call' = [call EXCEPT !.done = TRUE, !.ret = TxResult_new(call.gas, call.vps)]
    /\ UNCHANGED <<storage, write_log, gas_meter, reply, trace, run, abci>>

SpecTxResult == InitTxResult /\ [][TxResultNew]_vars

\* ---------------------------------------------------------------- claims
\* The steps and states the claims speak of.
AppliedTx == reply.msg = "ApplyTx"
DryRan == reply.msg = "AbciQuery" /\ reply.sent
\* The keys the last transaction's code mutated.
Touched == {k \in Key : trace.tx.w[k] # 0}
\* The last run_tx ran its predicates and produced a TxResult.
Produced == trace.tx.endc = "ok" /\ trace.err = ""
CalledFor(a) == {i \in 1..Len(trace.calls) : trace.calls[i].addr = a}

\* C1: after an ApplyTx whose VP result has a non-empty rejected set, a read
\* of every key through the write-log returns the value it had before that
\* ApplyTx, and the block-scope layer and storage are what they were.
C1_RollbackOnRejection ==
    [][(reply'.msg = "ApplyTx" /\ reply'.ok /\ trace'.result.vps.rejected_vps # {})
        => /\ \A k \in Key : wl_read(write_log', storage', k) = wl_read(write_log, storage, k)
           /\ write_log'.block = write_log.block
           /\ storage' = storage]_vars

\* C2: after an ApplyTx whose transaction code fails in the TxRunner after it
\* staged writes or deletes, the write-log's tx-scope is empty.
C2_RunnerFailureDiscardsTxScope ==
    (AppliedTx /\ trace.err = "runner" /\ Touched # {}) => write_log.tx = NoMods

\* C3: when the transaction's code charges gas that overflows the meter, the
\* result is TxResult{gas_used: 0, valid: false}, the ApplyTx reply is Ok(0)
\* and the tx-scope is discarded.
C3_GasOverflowPoisonsTx ==
    (AppliedTx /\ trace.tx.endc = "gas")
        => /\ reply.ok /\ reply.gas_used = 0
           /\ ~trace.result.valid
           /\ write_log.tx = NoMods

C5_GasAccruesToBlockTotal ==
    [][(reply'.msg = "ApplyTx" /\ reply'.ok)
        => gas_meter'.block_gas = gas_meter.block_gas + reply'.gas_used]_vars

\* C6: a Query with path dry_run_tx leaves the storage, the shell's write-log
\* (both layers) and the shell's block gas meter as they were, and GetInfo
\* answers after it what it answered before it.
C6_DryRunIsPure ==
    [][(reply'.msg = "AbciQuery" /\ reply'.sent)
        => /\ storage' = storage
           /\ write_log' = write_log
           /\ gas_meter' = gas_meter
           /\ last_state' = last_state]_vars

\* A dry run of an accepted transaction that staged a write, on a shell whose
\* write-log holds entries in both layers.
C6_Witness ==
    /\ DryRan /\ Produced /\ trace.result.valid /\ Touched # {}
    /\ write_log.block # NoMods /\ write_log.tx # NoMods

\* C7: every address found in a key the transaction mutated is in the
\* verifier set, and its predicate is run when the predicates are run.
C7_VerifierCoverage ==
    (trace.tx.endc = "ok" /\ trace.err \in {"", "storage"})
        => \A k \in Touched : \A a \in find_addresses(k) :
              /\ a \in DOMAIN trace.verifiers
              /\ trace.err = "" => CalledFor(a) # {}

\* A transaction that declared nobody and wrote the key naming ada and alan
\* had both predicates run.
C7_Witness ==
    /\ Produced /\ trace.tx.B = {} /\ Touched = {"ada/alan"}
    /\ CalledFor("ada") # {} /\ CalledFor("alan") # {}

\* C8: the verifier set is exactly the declared set B together with the
\* addresses found in the keys this transaction mutated.
C8_VerifierSetExact ==
    Produced => DOMAIN trace.verifiers = trace.tx.B \cup UNION {find_addresses(k) : k \in Touched}

\* C9: each address of V has its predicate invoked exactly once, with exactly
\* the keys of K (the keys this transaction mutated) that name it and with
\* the full set V.
C9_EachVerifierOnceWithItsKeys ==
    Produced =>
        \A a \in DOMAIN trace.verifiers :
            /\ Cardinality(CalledFor(a)) = 1
            /\ \A i \in CalledFor(a) :
                  /\ SeqRange(trace.calls[i].keys) = {k \in Touched : a \in find_addresses(k)}
                  /\ Len(trace.calls[i].keys) = Cardinality(SeqRange(trace.calls[i].keys))
                  /\ trace.calls[i].addresses = DOMAIN trace.verifiers

\* C10: accepted and rejected are disjoint, together they are the verifier
\* set, and each address is in the set its own predicate's answer names.
C10_AcceptedRejectedPartition ==
    Produced =>
        /\ trace.result.vps.accepted_vps \cap trace.result.vps.rejected_vps = {}
        /\ trace.result.vps.accepted_vps \cup trace.result.vps.rejected_vps = DOMAIN trace.verifiers
        /\ \A a \in DOMAIN trace.verifiers :
              /\ a \in trace.result.vps.accepted_vps <=> trace.tx.vp[a] = "accept"
              /\ a \in trace.result.vps.rejected_vps <=> trace.tx.vp[a] \in {"reject", "error"}

\* A dry run in which alan's predicate accepted and ada's trapped.
C10_Witness ==
    /\ DryRan /\ Produced
    /\ trace.result.vps.accepted_vps = {"alan"}
    /\ trace.result.vps.rejected_vps = {"ada"}
    /\ trace.result.vps.have_error


\* How many entries of the sequence s equal x.
Count(s, x) == Cardinality({i \in 1..Len(s) : s[i] = x})

\* C11: after a complete run the aggregated gas_used list has one element
\* per predicate that ran, rejecting and erroring ones included: its length
\* is the size of the verifier set and each predicate's own gas is in it.
C11_OneGasEntryPerPredicate ==
    Produced =>
        /\ Len(trace.result.vps.gas_used) = Cardinality(DOMAIN trace.verifiers)
        /\ Len(trace.result.vps.gas_used) = Len(trace.calls)
        /\ \A g \in {VpGas(a) : a \in Addr} :
              Count(trace.result.vps.gas_used, g)
                  = Cardinality({a \in DOMAIN trace.verifiers : VpGas(a) = g})

\* Two predicates ran, one rejected and one trapped, and both left a gas entry.
C11_Witness ==
    /\ Produced
    /\ trace.tx.vp["ada"] = "error" /\ trace.tx.vp["alan"] = "reject"
    /\ trace.result.vps.rejected_vps = {"ada", "alan"}
    /\ Len(trace.result.vps.gas_used) = 2


\* merge_vp_results on its own: three partial results of the fold, each
\* with up to MaxEntries gas entries, the keys of ada's predicate when ada
\* accepted, alan among the rejected or not, with or without an error.
GasLists == UNION {[1..n -> {VpGas(a) : a \in VpAddr}] : n \in 0..MaxEntries}

MergeArgs ==
    {[accepted_vps |-> acc, rejected_vps |-> rej,
      changed_keys |-> IF acc = {} THEN <<>> ELSE <<"ada/bal">>,
      gas_used |-> g, have_error |-> e] :
        acc \in {{}, {"ada"}}, rej \in {{}, {"alan"}}, g \in GasLists, e \in BOOLEAN}

InitMerge ==
    /\ ShellNew
    /\ call \in [fn : {"merge_vp_results"}, a : MergeArgs, b : MergeArgs, c : MergeArgs,
                 done : {FALSE}, ab : {VpsResult_default}, ba : {VpsResult_default},
                 ab_c : {VpsResult_default}, a_bc : {VpsResult_default},
                 da : {VpsResult_default}, ad : {VpsResult_default}]

MergeVpResults ==
    /\ ~call.done
    /\ call' = [call EXCEPT !.done = TRUE,
                    !.ab = merge_vp_results(call.a, call.b),
                    !.ba = merge_vp_results(call.b, call.a),
                    !.ab_c = merge_vp_results(merge_vp_results(call.a, call.b), call.c),
                    !.a_bc = merge_vp_results(call.a, merge_vp_results(call.b, call.c)),
                    !.da = merge_vp_results(VpsResult_default, call.a),
                    !.ad = merge_vp_results(call.a, VpsResult_default)]
    /\ UNCHANGED <<storage, write_log, gas_meter, reply, trace, run, abci>>

SpecMerge == InitMerge /\ [][MergeVpResults]_vars

\* The sequences s and t hold the same elements the same number of times.
SameBag(s, t) ==
    /\ Len(s) = Len(t)
    /\ \A x \in SeqRange(s) \cup SeqRange(t) : Count(s, x) = Count(t, x)

\* Two VpsResult equal up to the order of changed_keys and gas_used.
SameVpsResult(x, y) ==
    /\ x.accepted_vps = y.accepted_vps
    /\ x.rejected_vps = y.rejected_vps
    /\ x.have_error = y.have_error
    /\ SameBag(x.changed_keys, y.changed_keys)
    /\ SameBag(x.gas_used, y.gas_used)

\* C12: merge(a, b) and merge(b, a), and merge(merge(a, b), c) and
\* merge(a, merge(b, c)), are equal up to the order of changed_keys and
\* gas_used, and VpsResult::default() is an identity of merge on both sides.
C12_MergeAssociativeCommutative ==
    call.done =>
        /\ SameVpsResult(call.ab, call.ba)
        /\ SameVpsResult(call.ab_c, call.a_bc)
        /\ call.da = call.a
        /\ call.ad = call.a

\* Two results with different gas entries, keys and error flags were merged
\* both ways, and the two gas lists differ in order only.
C12_Witness ==
    /\ call.done
    /\ call.a.gas_used # <<>> /\ call.b.gas_used # <<>>
    /\ call.ab.gas_used # call.ba.gas_used
    /\ call.a.have_error /\ ~call.b.have_error
    /\ call.a.changed_keys # call.b.changed_keys


\* C13: the outcome of an ApplyTx does not depend on the order in which the
\* predicates are scheduled and complete: every schedule leaves the same
\* write-log, storage and meter and reports the same gas_used, so two
\* shells fed the same messages commit the same Merkle root.
C13_DeterministicUnderScheduling ==
    [][reply'.msg = "ApplyTx" =>
        \A sched \in Orders(scheduled(trace'.tx, write_log)) :
            \A r \in {run_tx(trace'.tx, apply_tx_meter(gas_meter), write_log, sched)} :
                /\ write_log' = apply_tx_write_log(r)
                /\ reply'.gas_used = r.result.gas_used
                /\ reply'.ok = (r.err = "")
                /\ trace'.result.valid = r.result.valid
                /\ storage' = storage
                /\ gas_meter' = gas_meter]_vars

\* In a block opened after a commit, a transaction had alan's predicate
\* complete before ada's, with different gas costs.
C13_Witness ==
    /\ AppliedTx /\ Produced
    /\ storage.last.some
    /\ Len(trace.calls) = 2
    /\ trace.calls[1].addr = "alan" /\ trace.calls[2].addr = "ada"
    /\ VpGas("alan") < VpGas("ada")


\* C14: when a verifier's VP is absent from storage, run_tx still returns a
\* TxResult in which that verifier is rejected with have_error set, and the
\* transaction is dropped.
C14_AbsentVpIsRejected ==
    (AppliedTx /\ trace.tx.endc = "ok")
        => \A a \in DOMAIN trace.verifiers \ VpAddr :
              /\ reply.ok
              /\ a \in trace.result.vps.rejected_vps
              /\ trace.result.vps.have_error
              /\ ~trace.result.valid
              /\ write_log.tx = NoMods


\* run_vps_dry on its own: the verifier map of a transaction that wrote one
\* of the keys, every mix of predicate answers, every schedule, and an
\* initial_gas that leaves room for both predicates, for alan's only, or
\* for neither.
EngineGas == {0} \cup ((TRANSACTION_GAS_LIMIT - VpGas("ada"))..TRANSACTION_GAS_LIMIT)

EngineVerifiers ==
    {get_verifiers([NewWriteLog EXCEPT !.tx[k] = 1], B) : k \in Key, B \in {{}, {"alan"}}}

InitEngine ==
    /\ ShellNew
    /\ \E v \in EngineVerifiers :
          call \in [fn : {"run_vps_dry"}, verifiers : {v}, sched : Orders(DOMAIN v),
                    tx : {[NoTx EXCEPT !.vp = f] : f \in [VpAddr -> Outcome]},
                    initial_gas : EngineGas, done : {FALSE}, ret : {VpsResult_default}]

RunVpsDry ==
    /\ ~call.done
    /\ call' = [call EXCEPT !.done = TRUE,
                    !.ret = run_vps_dry(call.sched, call.verifiers, call.tx, call.initial_gas)]
    /\ UNCHANGED <<storage, write_log, gas_meter, reply, trace, run, abci>>

SpecEngine == InitEngine /\ [][RunVpsDry]_vars

\* The predicate of a host-errors in the engine run of call: its gas
\* envelope is exceeded or it traps.
HostErrors(a) ==
    \/ call.initial_gas + VpGas(a) > TRANSACTION_GAS_LIMIT
    \/ call.tx.vp[a] = "error"

\* C15: a predicate that host-errors is in rejected and sets have_error;
\* every other predicate of the transaction still lands in the set its own
\* answer names, and every predicate leaves its gas entry.
C15_HostErrorIsRejectedOthersRun ==
    call.done =>
        /\ \A a \in DOMAIN call.verifiers :
              IF HostErrors(a)
              THEN a \in call.ret.rejected_vps /\ call.ret.have_error
              ELSE /\ a \in call.ret.accepted_vps <=> call.tx.vp[a] = "accept"
                   /\ a \in call.ret.rejected_vps <=> call.tx.vp[a] = "reject"
        /\ call.ret.have_error <=> \E a \in DOMAIN call.verifiers : HostErrors(a)
        /\ Len(call.ret.gas_used) = Cardinality(DOMAIN call.verifiers)
        /\ \A a \in DOMAIN call.verifiers : Count(call.ret.gas_used, VpGas(a)) = 1

\* ada's predicate, scheduled first, blew the gas envelope; alan's still ran
\* within it and accepted.
C15_Witness ==
    /\ call.done
    /\ call.sched = <<"ada", "alan">>
    /\ call.tx.vp = AllAccept
    /\ call.initial_gas + VpGas("ada") > TRANSACTION_GAS_LIMIT
    /\ call.initial_gas + VpGas("alan") <= TRANSACTION_GAS_LIMIT
    /\ call.ret.rejected_vps = {"ada"} /\ call.ret.accepted_vps = {"alan"}
    /\ call.ret.have_error
    /\ Len(call.ret.gas_used) = 2


\* The end of check_vps on its own: the aggregated per-VP costs arrive in
\* any order, on a meter that already holds the fees charged before.
Costs == {30, 40, 100}
CostLists == UNION {[1..n -> Costs] : n \in 0..MaxVps}
GasBefore == {0, 5, 60}

InitCharge ==
    /\ ShellNew
    /\ call \in [fn : {"check_vps"}, gas_used : CostLists, before : GasBefore,
                 done : {FALSE}, ret : {Start(DefaultMeter, NewWriteLog)}]

ChargeVps ==
    /\ ~call.done
    /\ call' = [call EXCEPT !.done = TRUE,
                    !.ret = charge_vps(
                        [Start([DefaultMeter EXCEPT !.transaction_gas = call.before], NewWriteLog)
                            EXCEPT !.vps = sort_gas([VpsResult_default
                                                        EXCEPT !.gas_used = call.gas_used])])]
    /\ UNCHANGED <<storage, write_log, gas_meter, reply, trace, run, abci>>

SpecCharge == InitCharge /\ [][ChargeVps]_vars

\* The largest element of a non-empty set of numbers.
MaxOf(S) == CHOOSE x \in S : \A y \in S : y <= x

\* What the parallel pricing asks for a list of per-VP costs: the maximum in
\* full and the rest divided by the divisor, rounded up.
ParallelPrice(costs) ==
    IF costs = <<>> THEN 0
    ELSE MaxOf(SeqRange(costs))
            + (SeqSum(costs) - MaxOf(SeqRange(costs)) + PARALLEL_GAS_DIVISOR - 1)
                  \div PARALLEL_GAS_DIVISOR

\* C16: the per-VP gas list is sorted in decreasing order, the maximum is
\* charged in full and the rest through add_parallel_fee, whatever order the
\* costs arrived in; for [100, 40, 30] in any order the transaction's gas is
\* what was charged before plus 100 plus parallel_fee([40, 30]).
C16_ParallelGasPricing ==
    call.done =>
        /\ \A i \in 1..(Len(call.ret.vps.gas_used) - 1) :
              call.ret.vps.gas_used[i] >= call.ret.vps.gas_used[i + 1]
        /\ SameBag(call.ret.vps.gas_used, call.gas_used)
        /\ IF call.before + ParallelPrice(call.gas_used) <= TRANSACTION_GAS_LIMIT
           THEN /\ call.ret.err = ""
                /\ call.ret.gm.transaction_gas = call.before + ParallelPrice(call.gas_used)
           ELSE call.ret.err = "gas"
        /\ SameBag(call.gas_used, <<100, 40, 30>>)
              => call.ret.gm.transaction_gas = call.before + 100 + 35

\* The costs arrived as [30, 100, 40] and the meter was charged 100 + 35.
C16_Witness ==
    /\ call.done
    /\ call.gas_used = <<30, 100, 40>>
    /\ call.before = 5
    /\ call.ret.err = ""
    /\ call.ret.vps.gas_used = <<100, 40, 30>>
    /\ call.ret.gm.transaction_gas = 140


\* The sum of the lengths of a set of <<blob, length>> pairs.
RECURSIVE SumLens(_)
SumLens(S) ==
    IF S = {} THEN 0
    ELSE LET b == CHOOSE x \in S : TRUE IN b[2] + SumLens(S \ {b})

\* The distinct code blobs of the last transaction: its code and the VP
\* code of each verifier.
Blobs == {<<"tx", CodeLen(trace.tx)>>} \cup {<<VpCode(a), VpLen(a)>> : a \in DOMAIN trace.verifiers}

\* What the last transaction was charged for compiling: its gas without the
\* base fee, the code's own gas and the predicates' gas.
CompilingCharge ==
    trace.result.gas_used
        - TxLen(trace.tx) * BASE_TX_FEE_PER_BYTE
        - TxCodeGas(trace.tx)
        - ParallelPrice(trace.result.vps.gas_used)

\* C17 as stated: the total compiling charge of a transaction is
\* COMPILE_FEE_PER_BYTE times the summed lengths of its distinct code blobs.
C17_CompilingFeePerDistinctBlob ==
    Produced => CompilingCharge = COMPILE_FEE_PER_BYTE * SumLens(Blobs)

\* C17 as amended: the compiling fee is charged once for the tx code and
\* once for each verifier's VP code, also when verifiers share a blob.
C17_CompilingFeePerVerifier ==
    Produced =>
        CompilingCharge
            = COMPILE_FEE_PER_BYTE
                * (CodeLen(trace.tx)
                    + SumLens({<<a, VpLen(a)>> : a \in DOMAIN trace.verifiers}))

\* Two verifiers with the same VP blob: that blob was charged twice.
C17_Witness ==
    /\ Produced
    /\ DOMAIN trace.verifiers = {"ada", "alan"}
    /\ VpCode("ada") = VpCode("alan")
    /\ CompilingCharge = COMPILE_FEE_PER_BYTE * (CodeLen(trace.tx) + 2 * VpLen("ada"))


C19_CommitVisibility ==
    [][(reply'.msg = "ApplyTx" /\ reply'.ok /\ trace'.result.vps.rejected_vps = {}) =>
        /\ write_log'.tx = NoMods
        /\ \A k \in Key :
              trace'.tx.w[k] # 0 => wl_read(write_log', storage', k) = ModValue(trace'.tx.w[k])
        /\ \A sched \in Orders(scheduled(trace'.tx, write_log)) :
              \A r \in {run_tx(trace'.tx, apply_tx_meter(gas_meter), write_log, sched)} :
                  \A k \in Key : wl_read(write_log', storage', k) = wl_read(r.wl, storage, k)]_vars

\* An accepted transaction deleted the genesis balance: the delete sits in
\* block-scope over the stored value and reads see the key absent.
C19_Witness ==
    /\ AppliedTx /\ Produced /\ trace.result.valid
    /\ trace.tx.w["ada/bal"] = -1
    /\ write_log.tx = NoMods
    /\ write_log.block["ada/bal"] = -1
    /\ storage.data["ada/bal"] = 1
    /\ wl_read(write_log, storage, "ada/bal") = 0


\* C20: the block-scope buffer holds the writes and deletes of the
\* transactions committed with commit_tx since the last CommitBlock and of
\* no other transaction, and CommitBlock moves exactly these into storage
\* and leaves the buffer empty.
C20_BlockCommitDrainsWriteLog ==
    [][/\ reply'.msg = "ApplyTx" =>
            write_log'.block =
                IF reply'.ok /\ trace'.result.vps.rejected_vps = {}
                THEN [k \in Key |-> IF trace'.tx.w[k] # 0 THEN trace'.tx.w[k]
                                    ELSE write_log.block[k]]
                ELSE write_log.block
       /\ reply'.msg = "CommitBlock" =>
            /\ write_log'.block = NoMods
            /\ \A k \in Key :
                  storage'.data[k] = IF write_log.block[k] # 0 THEN ModValue(write_log.block[k])
                                     ELSE storage.data[k]]_vars


\* C21: GetInfo answers None until a CommitBlock was handled, and after
\* every CommitBlock it answers Some(root, height) with the root replied to
\* that CommitBlock and the height given by the block's BeginBlock.
C21_GetInfoTracksCommit ==
    [][/\ reply'.msg = "CommitBlock" =>
            /\ last_state'.some
            /\ last_state'.root = reply'.info.root
            /\ last_state'.height = storage.height
       /\ reply'.msg # "CommitBlock" => last_state' = last_state]_vars


\* C22: ApplyTx, EndBlock and CommitBlock are handled only inside a block,
\* that is after a BeginBlock was handled and not right after the
\* CommitBlock that closed the block, and BeginBlock is handled only outside
\* a block, not right after a BeginBlock, ApplyTx or EndBlock.
C22_LifecycleOrder ==
    [][/\ reply'.msg \in {"ApplyTx", "EndBlock", "CommitBlock"} =>
            /\ storage.height > 0
            /\ reply.msg \notin {"", "CommitBlock"}
       /\ reply'.msg = "BeginBlock" =>
            reply.msg \notin {"BeginBlock", "ApplyTx", "EndBlock"}]_vars


\* C23: the height of each committed block is greater than the height of the
\* block committed before it: a CommitBlock handled when a block was already
\* committed commits a block of a greater height.
C23_HeightStrictlyIncreasing ==
    [][reply'.msg = "CommitBlock" /\ last_state.some =>
            storage.height > last_state.height]_vars


\* C24: every ApplyTx is replied to: Ok(gas_used) when run_tx produced a
\* TxResult, and an Err when the bytes were undecodable, the runner failed,
\* a gas charge of the code failed or a verifier's predicate could not be
\* loaded; after it the shell loops on, unless the reply channel failed.
C24_ApplyTxAlwaysReplies ==
    [][reply'.msg = "ApplyTx" =>
            /\ reply'.sent
            /\ reply'.ok <=> (trace'.tx.endc = "ok" /\ trace'.tx.B \subseteq VpAddr)
            /\ reply'.ok <=> trace'.err = ""
            /\ reply'.ok => reply'.gas_used = trace'.result.gas_used
            /\ run' = "loop" \/ abci' = "send_err"]_vars

\* An ApplyTx that was replied Err because a predicate could not be loaded,
\* after which the shell loops on.
C24_Witness ==
    /\ AppliedTx /\ reply.sent /\ ~reply.ok
    /\ trace.err = "storage"
    /\ run = "loop"


\* C25: every request the shell handles, of every variant and a Query with
\* any path included, has its reply sent by the time the handler is done,
\* that is before the next message is received.
C25_EveryRequestAnswered ==
    [][reply'.msg # "" => reply'.sent]_vars


C27_ChannelFailuresAreFatal ==
    [][/\ run = "loop"
       /\ abci' = "recv_err" => run' = "AbciChannelRecvError"
       /\ abci' = "send_err" => run' = "AbciChannelSendError"]_vars

\* The reply to a CommitBlock could not be sent and run() has returned.
C27_Witness ==
    /\ reply.msg = "CommitBlock" /\ reply.sent
    /\ abci = "send_err"
    /\ run = "AbciChannelSendError"


\* C28: an ApplyTx, a Query dry_run_tx and a MempoolValidate given bytes
\* that do not decode each reply with an error and leave the storage and
\* the write-log as they were, and a MempoolValidate leaves the storage, the
\* write-log and the gas meter as they were whatever its input.
C28_UndecodableRejectedWithoutEffect ==
    [][/\ (/\ reply'.msg \in {"ApplyTx", "AbciQuery"}
           /\ trace'.tx.endc = "undecodable")
            => /\ reply'.sent /\ ~reply'.ok
               /\ storage' = storage /\ write_log' = write_log
       /\ reply'.msg = "MempoolValidate"
            => /\ reply'.sent
               /\ reply'.tx.endc = "undecodable" => ~reply'.ok
               /\ storage' = storage /\ write_log' = write_log
               /\ gas_meter' = gas_meter]_vars

\* An ApplyTx of undecodable bytes was replied Err on a shell whose write-log
\* holds block-scope entries.
C28_Witness ==
    /\ AppliedTx /\ reply.sent /\ ~reply.ok
    /\ trace.tx.endc = "undecodable"
    /\ write_log.block # NoMods


\* C29: the predicates cannot mutate state: the storage is what it was
\* before the transaction, the write-log the engine leaves is the one the tx
\* code left, and every predicate is handed that same write-log, in whatever
\* order the pool runs them.
C29_PredicatesCannotMutate ==
    [][(reply'.msg \in {"ApplyTx", "AbciQuery"} /\ reply'.sent /\ trace'.err = "")
        => /\ storage' = storage
           /\ trace'.wl = TxRunner_run(trace'.tx, Start(DefaultMeter, write_log)).wl
           /\ \A i \in 1..Len(trace'.calls) :
                  trace'.calls[i].write_log = trace'.wl]_vars

\* Two predicates ran on a transaction that staged a write.
C29_Witness ==
    /\ reply.msg \in {"ApplyTx", "AbciQuery"} /\ reply.sent
    /\ Produced /\ Touched # {}
    /\ Len(trace.calls) = 2
    /\ trace.wl.tx # NoMods


\* C30: a dropped transaction emits no events externally: after an ApplyTx
\* that dropped its transaction the event buffer that the block commit
\* flushes is what it was before, after an ApplyTx that committed its
\* transaction the buffer holds the transaction's event at its end, and
\* CommitBlock flushes the whole buffer.
C30_DroppedTxEmitsNoEvents ==
    [][/\ (reply'.msg = "ApplyTx" /\ reply'.ok /\ trace'.result.vps.rejected_vps # {})
            => write_log'.events = write_log.events
       /\ (reply'.msg = "ApplyTx" /\ reply'.ok /\ trace'.result.vps.rejected_vps = {})
            => write_log'.events = Append(write_log.events, trace'.tx.ev)
       /\ reply'.msg = "CommitBlock" => write_log'.events = <<>>]_vars


\* --------------------------------------------------------------- events
\* crates/core/src/event.rs. A string is a sequence of characters; the
\* strings handed in are those of at most MaxStr characters over Chars.
Chars == {"/", "a", "b"}
Strs == UNION {[1..n -> Chars] : n \in 0..MaxStr}
HasSlash(s) == \E i \in 1..Len(s) : s[i] = "/"
\* <IbcEvent as EventToEmit>::DOMAIN and the fallback of EventType::domain
IBC_DOMAIN == <<"i", "b", "c">>
UNKNOWN_DOMAIN == <<"u", "n", "k", "n", "o", "w", "n">>

\* str::split_once('/'): None, or the text before and after the first '/'.
split_once(s) ==
    IF ~HasSlash(s) THEN [some |-> FALSE, before |-> <<>>, after |-> <<>>]
    ELSE LET i == CHOOSE i \in 1..Len(s) : s[i] = "/" /\ \A j \in 1..(i - 1) : s[j] # "/"
         IN  [some |-> TRUE, before |-> SubSeq(s, 1, i - 1), after |-> SubSeq(s, i + 1, Len(s))]

\* split_once that splits at the last '/' (rsplit_once).
rsplit_once(s) ==
    IF ~HasSlash(s) THEN [some |-> FALSE, before |-> <<>>, after |-> <<>>]
    ELSE LET i == CHOOSE i \in 1..Len(s) : s[i] = "/" /\ \A j \in (i + 1)..Len(s) : s[j] # "/"
         IN  [some |-> TRUE, before |-> SubSeq(s, 1, i - 1), after |-> SubSeq(s, i + 1, Len(s))]

\* EventType::domain that takes everything before the last '/'.
domain_rsplit(inner) ==
    IF rsplit_once(inner).some THEN rsplit_once(inner).before ELSE UNKNOWN_DOMAIN

\* EventType::domain
domain(inner) ==
    IF split_once(inner).some THEN split_once(inner).before ELSE UNKNOWN_DOMAIN

\* EventType::sub_domain
sub_domain(inner) ==
    IF split_once(inner).some THEN split_once(inner).after ELSE <<>>

\* impl FromStr for EventType
from_str(s) ==
    IF ~split_once(s).some THEN [ok |-> FALSE, err |-> "MissingDomain", inner |-> <<>>]
    ELSE [ok |-> TRUE, err |-> "", inner |-> s]

\* One of the functions applied to an EventType string.
InitEventType ==
    /\ ShellNew
    /\ call \in [fn : {"EventType::domain", "EventType::from_str"}, s : Strs,
                 done : {FALSE}, ret : {<<>>}]

EventTypeDomain ==
    /\ call.fn = "EventType::domain" /\ ~call.done
    /\ call' = [call EXCEPT !.done = TRUE, !.ret = domain(call.s)]
    /\ UNCHANGED <<storage, write_log, gas_meter, reply, trace, run, abci>>

EventTypeFromStr ==
    /\ call.fn = "EventType::from_str" /\ ~call.done
    /\ call' = [call EXCEPT !.done = TRUE, !.ret = from_str(call.s)]
    /\ UNCHANGED <<storage, write_log, gas_meter, reply, trace, run, abci>>

SpecEventType == InitEventType /\ [][EventTypeDomain \/ EventTypeFromStr]_vars

\* C32: for every EventType string, domain() is the part before the first
\* '/' (the string is that part, a '/', and some rest, and the part holds no
\* '/'), and "unknown" when the string holds no '/'; from_str fails with
\* MissingDomain exactly for the strings without '/', and keeps the others.
C32_DomainAndFromStr ==
    /\ (call.fn = "EventType::domain" /\ call.done) =>
          IF HasSlash(call.s)
          THEN /\ \E k \in 1..Len(call.s) :
                      call.s = call.ret \o <<"/">> \o SubSeq(call.s, k + 1, Len(call.s))
               /\ ~HasSlash(call.ret)
          ELSE call.ret = UNKNOWN_DOMAIN
    /\ (call.fn = "EventType::from_str" /\ call.done) =>
          /\ (~call.ret.ok /\ call.ret.err = "MissingDomain") <=> ~HasSlash(call.s)
          /\ call.ret.ok <=> HasSlash(call.s)
          /\ call.ret.ok => call.ret.inner = call.s

\* domain() was taken of a string with two '/' and a text between them.
C32_Witness ==
    /\ call.fn = "EventType::domain" /\ call.done
    /\ call.s = <<"/", "a", "/">>


\* Event.attributes: a map from keys to values. The key of the Domain
\* attribute (event::extend::Domain) and one other key.
DOMAIN_KEY == "event-domain"
AttrKeys == {DOMAIN_KEY, "height"}
AttrValues == {"ibc", "1"}
Attributes == UNION {[K -> AttrValues] : K \in SUBSET AttrKeys}
Events == [level : {"block", "tx"}, event_type : Strs, attributes : Attributes]
IbcEvents == [event_type : Strs, attributes : Attributes]

\* Domain::<Event>::check_if_present_in(&event.attributes)
has_domain(attributes) == DOMAIN_KEY \in DOMAIN attributes

\* attrs.with_attribute(event_domain_of::<IbcEvent>())
with_domain_of_ibc(attributes) ==
    [k \in DOMAIN attributes \cup {DOMAIN_KEY} |->
        IF k = DOMAIN_KEY THEN "ibc" ELSE attributes[k]]

\* EventTypeBuilder::append_segment: an empty segment adds nothing.
append_segment(inner, segment) ==
    IF segment # <<>> THEN inner \o <<"/">> \o segment ELSE inner

\* impl From<IbcEvent> for Event
Event_from_ibc(ibc_event) ==
    [level |-> "tx",
     event_type |-> append_segment(IBC_DOMAIN, ibc_event.event_type),
     attributes |-> with_domain_of_ibc(ibc_event.attributes)]

\* The conversion that renders the full event type whatever the attributes.
abci_Event_from_full_type(event) ==
    [type |-> event.event_type,
     attributes |->
        {[key |-> k, value |-> event.attributes[k], index |-> TRUE] : k \in DOMAIN event.attributes}
        \cup {[key |-> "event-level", value |-> event.level, index |-> TRUE]}]

\* impl From<Event> for tendermint_proto::v0_37::abci::Event
abci_Event_from(event) ==
    [type |-> IF has_domain(event.attributes) THEN sub_domain(event.event_type)
              ELSE event.event_type,
     attributes |->
        {[key |-> k, value |-> event.attributes[k], index |-> TRUE] : k \in DOMAIN event.attributes}
        \cup {[key |-> "event-level", value |-> event.level, index |-> TRUE]}]

\* An Event rendered for the consensus response, and an IbcEvent converted
\* into an Event and then rendered.
InitRender ==
    /\ ShellNew
    /\ call \in [fn : {"abci::Event::from"}, event : Events, done : {FALSE}, ret : {<<>>}]
             \cup [fn : {"Event::from"}, ibc_event : IbcEvents, done : {FALSE}, ret : {<<>>}]

RenderEvent ==
    /\ call.fn = "abci::Event::from" /\ ~call.done
    /\ call' = [call EXCEPT !.done = TRUE, !.ret = abci_Event_from(call.event)]
    /\ UNCHANGED <<storage, write_log, gas_meter, reply, trace, run, abci>>

ConvertIbcEvent ==
    /\ call.fn = "Event::from" /\ ~call.done
    /\ call' = [call EXCEPT !.done = TRUE,
                            !.ret = [event |-> Event_from_ibc(call.ibc_event),
                                     domain |-> domain(Event_from_ibc(call.ibc_event).event_type),
                                     rendered |-> abci_Event_from(Event_from_ibc(call.ibc_event))]]
    /\ UNCHANGED <<storage, write_log, gas_meter, reply, trace, run, abci>>

SpecRender == InitRender /\ [][RenderEvent \/ ConvertIbcEvent]_vars

\* C31: an Event that carries a Domain attribute is rendered with the text
\* after the first '/' of its type as type (nothing when the type holds no
\* '/') and with the Domain attribute among the indexed attributes; an Event
\* without a Domain attribute is rendered with its full type string.
C31_RenderedType ==
    (call.fn = "abci::Event::from" /\ call.done) =>
        LET t == call.event.event_type
            attrs == call.event.attributes
        IN  /\ DOMAIN_KEY \in DOMAIN attrs =>
                  /\ IF HasSlash(t)
                     THEN \E k \in 1..Len(t) :
                              /\ t[k] = "/" /\ ~HasSlash(SubSeq(t, 1, k - 1))
                              /\ call.ret.type = SubSeq(t, k + 1, Len(t))
                     ELSE call.ret.type = <<>>
                  /\ [key |-> DOMAIN_KEY, value |-> attrs[DOMAIN_KEY], index |-> TRUE]
                        \in call.ret.attributes
            /\ DOMAIN_KEY \notin DOMAIN attrs => call.ret.type = t

\* An Event with a Domain attribute and a type of three segments was rendered.
C31_Witness ==
    /\ call.fn = "abci::Event::from" /\ call.done
    /\ DOMAIN_KEY \in DOMAIN call.event.attributes
    /\ call.event.event_type = <<"a", "/", "b">>
    /\ call.ret.type = <<"b">>

\* C40: every Event converted from an IbcEvent has the domain "ibc" and is
\* rendered with the IbcEvent's own event_type string as type, whatever that
\* string is, the empty string and strings with '/' included.
C40_IbcEventDomainAndType ==
    (call.fn = "Event::from" /\ call.done) =>
        /\ call.ret.domain = IBC_DOMAIN
        /\ call.ret.rendered.type = call.ibc_event.event_type


\* C37: Shell::run returns only on a channel failure: whenever the message
\* loop has ended, it ended with AbciChannelRecvError or
\* AbciChannelSendError, and never with an error raised while a request was
\* handled.
C37_LoopEndsOnlyOnChannelFailure ==
    run \in {"loop", "AbciChannelRecvError", "AbciChannelSendError"}


\* The calls of run_tx in the order the claim gives them: "add" and
\* "add_parallel_fee" are the two halves of the parallel-fee charge.
StepOrder ==
    <<"add_base_transaction_fee", "decode", "add_compiling_fee", "TxRunner", "get_verifiers",
      "vp_compiling_fee", "run_vps", "add", "add_parallel_fee", "finalize_transaction">>
Rank(name) == CHOOSE i \in 1..Len(StepOrder) : StepOrder[i] = name
LastStep == trace.steps[Len(trace.steps)]

\* C34: the calls run_tx makes follow the fixed order base fee, decode, tx
\* compiling fee, TxRunner, verifier discovery, VP compiling fees, VP
\* execution, parallel-fee charge, finalize_transaction, none of them
\* skipped except the charges that have nothing to charge; a call that
\* returns an error is the last one made: no predicate runs after the tx
\* code failed, and finalize_transaction is called only when no step failed.
C34_StepsInFixedOrder ==
    (AppliedTx \/ DryRan) =>
        /\ trace.steps # <<>> /\ trace.steps[1] = "add_base_transaction_fee"
        /\ \A i \in 1..(Len(trace.steps) - 1) :
              \/ Rank(trace.steps[i + 1]) = Rank(trace.steps[i]) + 1
              \/ trace.steps[i] = "vp_compiling_fee" /\ trace.steps[i + 1] = "vp_compiling_fee"
              \/ /\ trace.steps[i] = "get_verifiers" /\ trace.steps[i + 1] = "run_vps"
                 /\ DOMAIN trace.verifiers = {}
              \/ /\ trace.steps[i] = "run_vps" /\ trace.steps[i + 1] = "finalize_transaction"
                 /\ trace.calls = <<>>
        /\ trace.err = "" <=> LastStep = "finalize_transaction"
        /\ trace.err # "" => "finalize_transaction" \notin SeqRange(trace.steps)
        /\ trace.err = "decode" => LastStep = "decode"
        /\ trace.err = "runner" => LastStep = "TxRunner" /\ trace.calls = <<>>
        /\ trace.err = "storage" =>
              LastStep \in {"get_verifiers", "vp_compiling_fee"} /\ trace.calls = <<>>
        /\ trace.err = "gas" =>
              LastStep \in {"add_base_transaction_fee", "add_compiling_fee", "vp_compiling_fee",
                            "add", "add_parallel_fee"}
        /\ trace.calls # <<>> => "run_vps" \in SeqRange(trace.steps)

\* An applied transaction whose code trapped after staging a write: run_tx
\* stopped at the runner.
C34_Witness ==
    /\ AppliedTx /\ trace.err = "runner" /\ Touched # {}
    /\ trace.steps = <<"add_base_transaction_fee", "decode", "add_compiling_fee", "TxRunner">>


\* What the meter run_tx was handed held when run_tx began.
MeterAtStart == IF AppliedTx THEN gas_meter.transaction_gas ELSE 0

C38_ApplyTxAgreesWithDryRun ==
    [][(DryRan /\ reply'.msg = "ApplyTx" /\ trace'.tx = trace.tx)
          => /\ trace'.err = trace.err
             /\ trace'.result.valid = trace.result.valid
             /\ trace'.result.vps.accepted_vps = trace.result.vps.accepted_vps
             /\ trace'.result.vps.rejected_vps = trace.result.vps.rejected_vps
             /\ trace'.result.vps.have_error = trace.result.vps.have_error
             /\ trace'.result.vps.gas_used = trace.result.vps.gas_used
             /\ trace'.result.gas_used = trace.result.gas_used
             /\ reply'.gas_used = reply.gas_used
             /\ reply'.ok = reply.ok]_vars

\* A transaction that writes the balance key was applied in an open block
\* and found valid, at the price the dry run reports for it.
C38_Witness ==
    /\ AppliedTx /\ Produced /\ trace.result.valid
    /\ storage.height = 1
    /\ trace.tx.w["ada/bal"] = 1
    /\ trace.result.gas_used = run_tx(trace.tx, DefaultMeter, write_log, <<"ada">>).result.gas_used
    /\ trace.result.gas_used > 0


\* C39: an applied transaction whose code ends well, stages no write or
\* delete and declares no verifier has an empty verifier set: no predicate
\* is invoked, the per-VP gas list is empty and neither the maximum nor the
\* parallel fee is charged, nobody rejects, the transaction is committed and
\* its gas_used is the base fee plus the tx compiling fee plus the code's
\* own gas.
C39_NoVerifierNoPredicateGas ==
    (AppliedTx /\ trace.tx.endc = "ok" /\ Touched = {} /\ trace.tx.B = {})
        => /\ trace.err = ""
           /\ DOMAIN trace.verifiers = {}
           /\ trace.calls = <<>>
           /\ trace.result.vps.gas_used = <<>>
           /\ "add" \notin SeqRange(trace.steps)
           /\ "add_parallel_fee" \notin SeqRange(trace.steps)
           /\ trace.result.vps.rejected_vps = {}
           /\ trace.result.valid
           /\ write_log = commit_tx(trace.wl)
           /\ reply.gas_used
                = TxLen(trace.tx) * BASE_TX_FEE_PER_BYTE
                    + COMPILE_FEE_PER_BYTE * CodeLen(trace.tx)
                    + TxCodeGas(trace.tx)


\* C36: after the code of an applied transaction has run, read_actions
\* returns exactly the actions this transaction pushed, in push order: the
\* empty list when it pushed none, and never an action of an earlier
\* transaction; after the ApplyTx the temporary key holds nothing.
C36_ReadActionsOfCurrentTx ==
    (AppliedTx /\ "TxRunner" \in SeqRange(trace.steps))
        => /\ read_actions(trace.wl) = trace.tx.acts
           /\ read_actions(write_log) = <<>>

=============================================================================
